---------------------------- MODULE Spec2Model ----------------------------
(***************************************************************************)
(* A model of the MSP-Resources maintenance tools:                         *)
(*   tools/lint_scripts.py  - the synopsis linter's header parsers          *)
(*   tools/build_catalog.py - script discovery, grouping, catalog           *)
(*                            rendering and the README merge                *)
(* Text is modelled at character level: a text is a sequence of             *)
(* one-character strings.                                                    *)
(***************************************************************************)
EXTENDS Integers, Sequences, FiniteSets, TLC

VARIABLES
    ext,        \* lint: suffix of the file being linted (lower-cased)
    text,       \* lint: text of the file being linted
    checked,    \* lint: the file has been through the dispatch of main()
    found,      \* lint: the file was NOT appended to `missing`
    synopsis,   \* lint: what the extractor returned (<<>> for PowerShell)
    readme,     \* merge: README.md, a text, or Absent
    catalogText,\* merge: render_catalog_block's output for the script tree
    prevReadme, \* merge: README.md as it was before the latest run
    runs,       \* merge: number of runs of the catalog builder so far
    path,       \* categorizer: the parts of the path handed to section_for
    section,    \* categorizer: section_for's result, or NoSection
    files,      \* catalog: the file system, entry name -> content or NoFile
    rootDirs,   \* catalog: which of the three roots exist as directories
    scripts,    \* catalog: discover_scripts' result
    data,       \* catalog: build_catalog_data's result
    catalog,    \* catalog: render_catalog_block's result (sequence of lines)
    issues,     \* tracker: the repository's issues, issue number -> issue
    issuesBefore, \* tracker: the issues as they were before the latest run
    lastRun     \* tracker: the latest linter run, or NoRun

vars == <<ext, text, checked, found, synopsis, readme, catalogText,
          prevReadme, runs, path, section, files, rootDirs, scripts, data,
          catalog, issues, issuesBefore, lastRun>>

lintVars == <<ext, text, checked, found, synopsis>>
mergeVars == <<readme, catalogText, prevReadme, runs>>
sectionVars == <<path, section>>
catalogVars == <<files, rootDirs, scripts, data, catalog>>
issueVars == <<issues, issuesBefore, lastRun>>

----------------------------------------------------------------------------
(* Bounds                                                                  *)

\* lines per linted text
MaxLines == 3
\* pieces per README text
MaxPieces == 4
\* runs of the catalog builder over one README
MaxRuns == 3
\* parts per path handed to section_for
MaxParts == 4
\* linter runs against one tracker
MaxLintRuns == 3
\* issues other people open in the tracker
MaxOtherIssues == 1

----------------------------------------------------------------------------
(* Character-level text helpers (Python str semantics)                     *)

NL == "\n"

\* str.isspace() over the model's alphabet
IsSpace(c) == c \in {" ", "\t", "\n", "\r"}

\* regex \w over the model's alphabet
IsWord(c) == c \in {"x", "y", "r", "u", "R", "U", "S", "Y", "N", "O", "P", "I",
                    "s", "n", "o", "p", "i", "_"}

\* str.lower() on one character
Lower(c) ==
    CASE c = "S" -> "s" [] c = "Y" -> "y" [] c = "N" -> "n" [] c = "O" -> "o"
      [] c = "P" -> "p" [] c = "I" -> "i" [] c = "R" -> "r" [] c = "U" -> "u"
      [] OTHER -> c

\* p occurs in s starting at index i (1-based)
OccursAt(s, p, i) ==
    /\ i >= 1
    /\ i + Len(p) - 1 <= Len(s)
    /\ \A k \in 1..Len(p) : s[i + k - 1] = p[k]

\* p occurs in s at index i, ignoring case (re.IGNORECASE)
OccursAtCI(s, p, i) ==
    /\ i >= 1
    /\ i + Len(p) - 1 <= Len(s)
    /\ \A k \in 1..Len(p) : Lower(s[i + k - 1]) = Lower(p[k])

\* str.find(p, from): least index >= from where p occurs, 0 when none
Find(s, p, from) ==
    LET hits == {i \in from..(Len(s) - Len(p) + 1) : OccursAt(s, p, i)}
    IN  IF hits = {} THEN 0 ELSE CHOOSE i \in hits : \A j \in hits : i <= j

\* `p in s`
Contains(s, p) == Find(s, p, 1) # 0

\* s[i:] with i 1-based
Tail_(s, i) == SubSeq(s, i, Len(s))

\* str.lstrip()
LStrip(s) ==
    LET keep == {i \in 1..Len(s) : ~IsSpace(s[i])}
    IN  IF keep = {} THEN <<>>
        ELSE Tail_(s, CHOOSE i \in keep : \A j \in keep : i <= j)

\* str.rstrip()
RStrip(s) ==
    LET keep == {i \in 1..Len(s) : ~IsSpace(s[i])}
    IN  IF keep = {} THEN <<>>
        ELSE SubSeq(s, 1, CHOOSE i \in keep : \A j \in keep : i >= j)

\* str.strip()
Strip(s) == RStrip(LStrip(s))

\* str.lstrip("#")
LStripHash(s) ==
    LET keep == {i \in 1..Len(s) : s[i] # "#"}
    IN  IF keep = {} THEN <<>>
        ELSE Tail_(s, CHOOSE i \in keep : \A j \in keep : i <= j)

\* str.splitlines() (line breaks are "\n" in the model's alphabet)
RECURSIVE SplitLines(_)
SplitLines(s) ==
    IF s = <<>> THEN <<>>
    ELSE LET n == Find(s, <<NL>>, 1)
         IN  IF n = 0 THEN <<s>>
             ELSE <<SubSeq(s, 1, n - 1)>> \o SplitLines(Tail_(s, n + 1))

\* "\n".join(lines)
RECURSIVE Join(_)
Join(ls) ==
    IF ls = <<>> THEN <<>>
    ELSE IF Len(ls) = 1 THEN ls[1]
    ELSE ls[1] \o <<NL>> \o Join(Tail(ls))

\* i is the start of the text or follows a line break (regex ^, re.MULTILINE)
LineStart(s, i) == i = 1 \/ (i > 1 /\ i <= Len(s) + 1 /\ s[i - 1] = NL)

----------------------------------------------------------------------------
(* tools/lint_scripts.py: extension sets and parsing helpers                *)

PS_EXTS == {".ps1", ".psm1", ".ps1xml"}
BASH_EXTS == {".sh", ".bash"}
PY_EXTS == {".py"}

PsOpen == <<"<", "#">>
PsClose == <<"#", ">">>
SynTag == <<".", "S", "Y", "N", "O", "P", "S", "I", "S">>

\* re.search(r"(?im)^\s*\.SYNOPSIS\b", block) is not None
TagLineIn(block) ==
    \E k \in 1..Len(block) :
        /\ OccursAtCI(block, SynTag, k)
        /\ (k + Len(SynTag) > Len(block) \/ ~IsWord(block[k + Len(SynTag)]))
        /\ \E p \in 1..k :
              /\ LineStart(block, p)
              /\ \A j \in p..(k - 1) : IsSpace(block[j])

\* the same search run over the whole text instead of the first block
HasPsSynopsis_anywhere(t) == TagLineIn(t)

\* has_ps_synopsis: first <# ... #> block, non-greedy, then the tag search
HasPsSynopsis(t) ==
    LET o == Find(t, PsOpen, 1)
    IN  IF o = 0 THEN FALSE
        ELSE LET c == Find(t, PsClose, o + 2)
             IN  IF c = 0 THEN FALSE
                 ELSE TagLineIn(SubSeq(t, o + 2, c - 1))

\* the loop shared by extract_bash_synopsis and extract_py_synopsis
RECURSIVE HashScan(_)
HashScan(ls) ==
    IF ls = <<>> THEN <<>>
    ELSE LET s == Strip(ls[1])
         IN  IF s # <<>> /\ s[1] = "#"
             THEN LET c == Strip(LStripHash(s))
                  IN  IF c # <<>> THEN c ELSE HashScan(Tail(ls))
             ELSE IF s # <<>> THEN <<>>
             ELSE HashScan(Tail(ls))

\* extract_bash_synopsis without the shebang skip
ExtractBashSynopsis_noskip(t) == HashScan(SplitLines(t))

\* extract_bash_synopsis
ExtractBashSynopsis(t) ==
    LET lines == SplitLines(t)
        i == IF lines # <<>> /\ OccursAt(lines[1], <<"#", "!">>, 1)
             THEN 1 ELSE 0
    IN  HashScan(SubSeq(lines, i + 1, Len(lines)))

DQ3 == <<"\"", "\"", "\"">>
SQ3 == <<"'", "'", "'">>

\* re.match(r'\s*[rRuU]?((?:"""|\'\'\'))([\s\S]*?)(\1)', text): group 2 in a
\* one-element sequence, or <<>> when the pattern does not match
DocstringMatch(t) ==
    LET ws == Len(t) - Len(LStrip(t))
        pre == IF ws + 1 <= Len(t) /\ t[ws + 1] \in {"r", "R", "u", "U"}
               THEN 1 ELSE 0
        q == ws + pre + 1
        delim == IF OccursAt(t, DQ3, q) THEN DQ3
                 ELSE IF OccursAt(t, SQ3, q) THEN SQ3 ELSE <<>>
    IN  IF delim = <<>> THEN <<>>
        ELSE LET c == Find(t, delim, q + 3)
             IN  IF c = 0 THEN <<>> ELSE << SubSeq(t, q + 3, c - 1) >>

\* extract_py_synopsis
ExtractPySynopsis(t) ==
    LET m == DocstringMatch(t)
        doc == IF m = <<>> THEN <<>> ELSE Strip(m[1])
    IN  IF doc # <<>> THEN Strip(SplitLines(doc)[1])
        ELSE HashScan(SplitLines(t))

----------------------------------------------------------------------------
(* The linter's inputs: texts of at most MaxLines lines, each line one of   *)
(* the shapes of its dialect                                                *)

\* lines of PowerShell files
\* '<#', '#>', '.SYNOPSIS', ' .synopsis x', '.SYNOPSISx', 'x .SYNOPSIS', 'x', 'x #>', '<# x #>', ''
PsShapes ==
    { <<"<", "#">>,
      <<"#", ">">>,
      <<".", "S", "Y", "N", "O", "P", "S", "I", "S">>,
      <<" ", ".", "s", "y", "n", "o", "p", "s", "i", "s", " ", "x">>,
      <<".", "S", "Y", "N", "O", "P", "S", "I", "S", "x">>,
      <<"x", " ", ".", "S", "Y", "N", "O", "P", "S", "I", "S">>,
      <<"x">>,
      <<"x", " ", "#", ">">>,
      <<"<", "#", " ", "x", " ", "#", ">">>,
      <<>> }

\* lines of shell files
\* '#!x', '# x x', '#', '', 'x', '  ## x ', ' #!x', 'x # x'
BashShapes ==
    { <<"#", "!", "x">>,
      <<"#", " ", "x", " ", "x">>,
      <<"#">>,
      <<>>,
      <<"x">>,
      <<" ", " ", "#", "#", " ", "x", " ">>,
      <<" ", "#", "!", "x">>,
      <<"x", " ", "#", " ", "x">> }

\* lines of Python files
\* '"""x"""', '"""x', '"""', "r'''x", "x'''", '#!x', '# y', 'x', '', ' '
PyShapes ==
    { <<"\"", "\"", "\"", "x", "\"", "\"", "\"">>,
      <<"\"", "\"", "\"", "x">>,
      <<"\"", "\"", "\"">>,
      <<"r", "'", "'", "'", "x">>,
      <<"x", "'", "'", "'">>,
      <<"#", "!", "x">>,
      <<"#", " ", "y">>,
      <<"x">>,
      <<>>,
      <<" ">> }

ShapesFor(e) ==
    IF e \in PS_EXTS THEN PsShapes
    ELSE IF e \in BASH_EXTS THEN BashShapes
    ELSE PyShapes

TextsFor(e) ==
    { Join(ls) : ls \in UNION { [1..n -> ShapesFor(e)] : n \in 0..MaxLines } }

LintExts == PS_EXTS \cup BASH_EXTS \cup PY_EXTS

NoSection == <<"-", "-">>
Absent == <<"ABSENT">>

\* values of the variables a specification does not use
IdleLint ==
    /\ ext = "" /\ text = <<>> /\ checked = FALSE /\ found = FALSE
    /\ synopsis = <<>>
IdleMerge ==
    /\ readme = Absent /\ catalogText = <<>> /\ prevReadme = Absent
    /\ runs = 0
IdleSection ==
    /\ path = <<>> /\ section = NoSection
IdleCatalog ==
    /\ files = <<>> /\ rootDirs = {} /\ scripts = <<>> /\ data = <<>>
    /\ catalog = <<>>
\* no linter run has touched the tracker yet
NoRun ==
    [kind |-> "none", creds |-> FALSE, apiOk |-> FALSE, body |-> <<>>,
     number |-> 0, n |-> 0]
IdleIssues ==
    /\ issues = <<>> /\ issuesBefore = <<>> /\ lastRun = NoRun

----------------------------------------------------------------------------
(* tools/lint_scripts.py main(): the per-file dispatch on the suffix        *)

InitLint ==
    /\ ext \in LintExts
    /\ text \in TextsFor(ext)
    /\ checked = FALSE
    /\ found = FALSE
    /\ synopsis = <<>>
    /\ IdleMerge /\ IdleSection /\ IdleCatalog /\ IdleIssues

CheckPs ==
    /\ ~checked
    /\ ext \in PS_EXTS
    /\ checked' = TRUE
    /\ found' = HasPsSynopsis(text)
    /\ synopsis' = <<>>
    /\ UNCHANGED <<ext, text, mergeVars, sectionVars, catalogVars, issueVars>>

CheckBash ==
    /\ ~checked
    /\ ext \in BASH_EXTS
    /\ checked' = TRUE
    /\ synopsis' = ExtractBashSynopsis(text)
    /\ found' = (synopsis' # <<>>)
    /\ UNCHANGED <<ext, text, mergeVars, sectionVars, catalogVars, issueVars>>

CheckPy ==
    /\ ~checked
    /\ ext \in PY_EXTS
    /\ checked' = TRUE
    /\ synopsis' = ExtractPySynopsis(text)
    /\ found' = (synopsis' # <<>>)
    /\ UNCHANGED <<ext, text, mergeVars, sectionVars, catalogVars, issueVars>>

NextLint == CheckPs \/ CheckBash \/ CheckPy

SpecLint == InitLint /\ [][NextLint]_vars

----------------------------------------------------------------------------
(* tools/build_catalog.py: the README merge                                 *)
(* The two markers, the legacy heading and the scaffold title are literals   *)
(* of the source; each is one symbol of a README text.                       *)

MARKER_START == <<"<!-- GENERATED-CATALOG:START -->">>
MARKER_END == <<"<!-- GENERATED-CATALOG:END -->">>
LEGACY_H1 == <<"## Script Catalog">>
ScaffoldTitle == <<"# MSP Resources", NL, NL>>

\* str.partition(sep): <<before, sep, after>>, or <<s, "", "">> without sep
Partition(s, sep) ==
    LET n == Find(s, sep, 1)
    IN  IF n = 0 THEN <<s, <<>>, <<>>>>
        ELSE <<SubSeq(s, 1, n - 1), sep, Tail_(s, n + Len(sep))>>

\* block = f"{MARKER_START}\n{catalog}{MARKER_END}\n"
Block(cat) == MARKER_START \o <<NL>> \o cat \o MARKER_END \o <<NL>>

\* the regex ^##[\t ]+.+$ (re.MULTILINE) matches in s at index i
HeadingMatchAt(s, i) ==
    /\ i >= 1 /\ i <= Len(s)
    /\ LineStart(s, i)
    /\ \/ OccursAt(s, LEGACY_H1, i)
       \/ /\ OccursAt(s, <<"#", "#">>, i)
          /\ i + 3 <= Len(s)
          /\ s[i + 2] \in {" ", "\t"}
          /\ s[i + 3] # NL

\* re.search(r"^##[\t ]+.+$", s, flags=re.MULTILINE): m.start() + 1, or 0
HeadingSearch(s) ==
    LET hits == {i \in 1..Len(s) : HeadingMatchAt(s, i)}
    IN  IF hits = {} THEN 0 ELSE CHOOSE i \in hits : \A j \in hits : i <= j

\* the branch "replace between markers"
MarkerReplace(prev, cat) ==
    LET pre == Partition(prev, MARKER_START)[1]
        rest == Partition(prev, MARKER_START)[3]
        post == Partition(rest, MARKER_END)[3]
    IN  pre \o Block(cat) \o post

\* the branch "replace the legacy heading's section"
LegacyReplace(prev, cat) ==
    LET start == Find(prev, LEGACY_H1, 1)
        after == Tail_(prev, start + Len(LEGACY_H1))
        m == HeadingSearch(after)
        end == IF m # 0 THEN start + Len(LEGACY_H1) + (m - 1)
               ELSE Len(prev) + 1
    IN  SubSeq(prev, 1, start - 1) \o Block(cat) \o Tail_(prev, end)

\* the branch "append block to end"
AppendBlock(prev, cat) == RStrip(prev) \o <<NL, NL>> \o Block(cat)

\* render_readme, with README.md's text (or Absent) and the rendered catalog
RenderReadme(prev, cat) ==
    IF prev = Absent THEN ScaffoldTitle \o Block(cat)
    ELSE IF Contains(prev, MARKER_START) /\ Contains(prev, MARKER_END)
         THEN MarkerReplace(prev, cat)
    ELSE IF Contains(prev, LEGACY_H1) THEN LegacyReplace(prev, cat)
    ELSE AppendBlock(prev, cat)

\* write_readme: README.md after the call
WriteReadme(old, new_md) ==
    LET prev == IF old = Absent THEN <<>> ELSE old
    IN  IF new_md # prev THEN new_md ELSE old

\* the pieces README texts are put together from
ReadmePieces ==
    { MARKER_START, MARKER_END, LEGACY_H1, <<NL>>, <<"x">>,
      <<"#", "#", " ", "y">>, <<"#", " ", "y">> }

RECURSIVE Concat(_)
Concat(ps) == IF ps = <<>> THEN <<>> ELSE ps[1] \o Concat(Tail(ps))

ReadmeTexts ==
    { Concat(ps) : ps \in UNION { [1..n -> ReadmePieces] : n \in 0..MaxPieces } }

\* rendered catalogs: of an empty script tree, and of a tree with one script
CatalogTexts ==
    { <<>>,
      <<"#", "#", "#", " ", "c", NL, NL, "-", " ", "c", NL, NL, NL>> }

InitMerge ==
    /\ readme \in ReadmeTexts \cup {Absent}
    /\ catalogText \in CatalogTexts
    /\ prevReadme = Absent
    /\ runs = 0
    /\ IdleLint /\ IdleSection /\ IdleCatalog /\ IdleIssues

\* main(): new_md = render_readme(data, doc_map); write_readme(new_md)
UpdateReadme ==
    /\ runs < MaxRuns
    /\ runs' = runs + 1
    /\ prevReadme' = readme
    /\ readme' = WriteReadme(readme, RenderReadme(readme, catalogText))
    /\ UNCHANGED <<catalogText, lintVars, sectionVars, catalogVars, issueVars>>

NextMerge == UpdateReadme

SpecMerge == InitMerge /\ [][NextMerge]_vars

----------------------------------------------------------------------------
(* tools/build_catalog.py: section_for                                      *)

\* list.index(x): the first index of x in parts (1-based), 0 when absent
IndexOf(parts, x) ==
    LET hits == {i \in 1..Len(parts) : parts[i] = x}
    IN  IF hits = {} THEN 0 ELSE CHOOSE i \in hits : \A j \in hits : i <= j

\* section_for with the first branch returning "General" like the other two
SectionFor_general(parts) ==
    IF IndexOf(parts, "Scripts") # 0
    THEN IF IndexOf(parts, "Scripts") < Len(parts)
         THEN <<"ConnectWise RMM (Asio)", parts[IndexOf(parts, "Scripts") + 1]>>
         ELSE <<"ConnectWise RMM (Asio)", "General">>
    ELSE IF IndexOf(parts, "Standalone") # 0
    THEN IF IndexOf(parts, "Standalone") < Len(parts)
         THEN <<"Standalone", parts[IndexOf(parts, "Standalone") + 1]>>
         ELSE <<"Standalone", "General">>
    ELSE IF IndexOf(parts, "ConnectWise-PSA") # 0
    THEN IF IndexOf(parts, "ConnectWise-PSA") < Len(parts)
         THEN <<"ConnectWise PSA", parts[IndexOf(parts, "ConnectWise-PSA") + 1]>>
         ELSE <<"ConnectWise PSA", "General">>
    ELSE <<"Misc", "Misc">>

\* section_for
SectionFor(parts) ==
    IF /\ IndexOf(parts, "Scripts") # 0
       /\ IndexOf(parts, "Scripts") < Len(parts)
    THEN <<"ConnectWise RMM (Asio)", parts[IndexOf(parts, "Scripts") + 1]>>
    ELSE IF IndexOf(parts, "Standalone") # 0
    THEN IF IndexOf(parts, "Standalone") < Len(parts)
         THEN <<"Standalone", parts[IndexOf(parts, "Standalone") + 1]>>
         ELSE <<"Standalone", "General">>
    ELSE IF IndexOf(parts, "ConnectWise-PSA") # 0
    THEN IF IndexOf(parts, "ConnectWise-PSA") < Len(parts)
         THEN <<"ConnectWise PSA", parts[IndexOf(parts, "ConnectWise-PSA") + 1]>>
         ELSE <<"ConnectWise PSA", "General">>
    ELSE <<"Misc", "Misc">>

\* the path segments section_for's inputs are put together from
Segments == {"Scripts", "Standalone", "ConnectWise-PSA", "Windows", "Foo.ps1"}

Paths == UNION { [1..n -> Segments] : n \in 0..MaxParts }

InitSection ==
    /\ path \in Paths
    /\ section = NoSection
    /\ IdleLint /\ IdleMerge /\ IdleCatalog /\ IdleIssues

\* build_catalog_data: sec = section_for(p)
Categorize ==
    /\ section = NoSection
    /\ section' = SectionFor(path)
    /\ UNCHANGED <<path, lintVars, mergeVars, catalogVars, issueVars>>

NextSection == Categorize

SpecSection == InitSection /\ [][NextSection]_vars

----------------------------------------------------------------------------
(* tools/build_catalog.py: discovery, grouping and rendering                *)

\* REPO.parts
RepoParts == <<"/", "repo">>

\* [SCRIPTS_DIR, STANDALONE_DIR, PSA_DIR], relative to REPO
Roots ==
    << <<"ConnectWise-RMM-Asio", "Scripts">>, <<"Standalone">>,
       <<"ConnectWise-PSA">> >>

SCRIPT_EXTS == {".ps1", ".psm1", ".py", ".sh"}

\* the entries the file system may hold, relative to REPO
Entries ==
    << [parts |-> <<"ConnectWise-RMM-Asio", "Scripts", "Windows", "Foo.ps1">>,
        suffix |-> ".ps1"],
       [parts |-> <<"ConnectWise-RMM-Asio", "Scripts", "Linux", "bar.sh">>,
        suffix |-> ".sh"],
       [parts |-> <<"ConnectWise-RMM-Asio", "Scripts", "Linux", "Zed.PY">>,
        suffix |-> ".PY"],
       [parts |-> <<"Standalone", "notes.txt">>, suffix |-> ".txt"],
       [parts |-> <<"ConnectWise-PSA", "api", "Mod.psm1">>, suffix |-> ".psm1"],
       [parts |-> <<"Standalone", "pkg.ps1">>, suffix |-> ".ps1"],
       [parts |-> <<"ConnectWise-RMM-Asio", "loose.sh">>, suffix |-> ".sh"],
       [parts |-> <<"ConnectWise-RMM-Asio", "Scripts", "Windows", "README.md">>,
        suffix |-> ".md"] >>

NoFile == <<"NOFILE">>
Dir == <<"DIR">>
Unreadable == <<"UNREADABLE">>

\* "<#\n.SYNOPSIS\nx\n#>"
PsWith == PsOpen \o <<NL>> \o SynTag \o <<NL, "x", NL>> \o PsClose
\* "x"
PsWithout == <<"x">>
\* "x <#\n.SYNOPSIS\nx\n#>": the block does not start its line
PsInline == <<"x", " ">> \o PsWith
\* "<# x #>\n<#\n.SYNOPSIS\nx\n#>": the tag is in the second block
PsLater == PsOpen \o <<" ", "x", " ">> \o PsClose \o <<NL>> \o PsWith
\* "#!x\nx": a shebang line and code
ShBare == <<"#", "!", "x", NL, "x">>
\* "#!x\n# x x"
ShDoc == <<"#", "!", "x", NL, "#", " ", "x", " ", "x">>
\* '"""x"""'
PyDoc == DQ3 \o <<"x">> \o DQ3
Plain == <<"x">>

\* what each entry may be: absent, a directory, or a file with a content
ContentsOf ==
    << {NoFile, PsWith, PsWithout, PsInline, PsLater, Unreadable},
       {NoFile, ShBare, ShDoc},
       {NoFile, PyDoc},
       {NoFile, Plain},
       {NoFile, PsWith, PsWithout},
       {NoFile, Dir},
       {NoFile, ShBare},
       {NoFile, Plain} >>

\* Path.is_file
IsFile(fs, e) == fs[e] # NoFile /\ fs[e] # Dir

\* str.lower() on a suffix
LowerSuffix(x) ==
    CASE x = ".PY" -> ".py" [] x = ".PS1" -> ".ps1" [] x = ".SH" -> ".sh"
      [] OTHER -> x

\* the entry lies below the root (root.rglob("*") yields it)
Below(e, root) ==
    /\ Len(Entries[e].parts) > Len(root)
    /\ SubSeq(Entries[e].parts, 1, Len(root)) = root

\* the order of str on the names in use, and on their lower-cased forms
SegOrder ==
    <<"/", "ConnectWise-PSA", "ConnectWise-RMM-Asio", "Foo.ps1", "Linux",
      "Mod.psm1", "README.md", "Scripts", "Standalone", "Windows", "Zed.PY",
      "api", "bar.sh", "loose.sh", "notes.txt", "pkg.ps1", "repo">>
LowerSegOrder ==
    <<"/", "api", "bar.sh", "ConnectWise-PSA", "ConnectWise-RMM-Asio", "Foo.ps1",
      "Linux", "loose.sh", "Mod.psm1", "notes.txt", "pkg.ps1", "README.md",
      "repo", "Scripts", "Standalone", "Windows", "Zed.PY">>
LabelOrder ==
    <<"ConnectWise PSA", "ConnectWise RMM (Asio)", "Misc", "Standalone">>

\* tuple comparison p < q, segments compared by their place in `order`
LexLess(p, q, order) ==
    \E k \in 1..(Len(q)) :
        /\ \A j \in 1..(k - 1) : j <= Len(p) /\ p[j] = q[j]
        /\ \/ k = Len(p) + 1
           \/ k <= Len(p) /\ IndexOf(order, p[k]) < IndexOf(order, q[k])

\* sorted(S) for a set of paths
RECURSIVE SortPaths(_, _)
SortPaths(S, order) ==
    IF S = {} THEN <<>>
    ELSE LET m == CHOOSE x \in S : \A y \in S \ {x} : LexLess(x, y, order)
         IN  <<m>> \o SortPaths(S \ {m}, order)

\* sorted(S) for a set of names
RECURSIVE SortNames(_, _)
SortNames(S, order) ==
    IF S = {} THEN <<>>
    ELSE LET m == CHOOSE x \in S :
                      \A y \in S \ {x} : IndexOf(order, x) < IndexOf(order, y)
         IN  <<m>> \o SortNames(S \ {m}, order)

\* discover_scripts comparing the suffix as it is spelled
DiscoverScripts_caseSensitive(fs, rd) ==
    SortPaths({ Entries[e].parts : e \in
                  { x \in 1..Len(Entries) :
                      /\ \E r \in 1..Len(Roots) : Roots[r] \in rd /\ Below(x, Roots[r])
                      /\ IsFile(fs, x)
                      /\ Entries[x].suffix \in SCRIPT_EXTS } },
              SegOrder)

\* discover_scripts, paths relative to REPO
DiscoverScripts(fs, rd) ==
    LET roots == { e \in 1..Len(Entries) :
                     \E r \in 1..Len(Roots) :
                         /\ Roots[r] \in rd
                         /\ Below(e, Roots[r])
                         /\ IsFile(fs, e)
                         /\ LowerSuffix(Entries[e].suffix) \in SCRIPT_EXTS }
    IN  SortPaths({ Entries[e].parts : e \in roots }, SegOrder)

\* the entry with these parts
EntryOf(parts) == CHOOSE e \in 1..Len(Entries) : Entries[e].parts = parts

\* _SYNOPSIS_RE.search(t): ^\s*<\#.*?\.SYNOPSIS.*?\#> under
\* re.IGNORECASE | re.DOTALL | re.MULTILINE
SynopsisReSearch(t) ==
    \E p \in 1..Len(t) : \E o \in p..Len(t) :
        /\ LineStart(t, p)
        /\ \A j \in p..(o - 1) : IsSpace(t[j])
        /\ OccursAt(t, PsOpen, o)
        /\ \E k \in (o + 2)..Len(t) :
              /\ OccursAtCI(t, SynTag, k)
              /\ \E c \in (k + Len(SynTag))..Len(t) : OccursAt(t, PsClose, c)

\* has_synopsis applying the linter's rule of the file's dialect
HasSynopsis_dialect(fs, parts) ==
    LET e == EntryOf(parts)
        sfx == LowerSuffix(Entries[e].suffix)
        t == IF fs[e] = Unreadable THEN <<>> ELSE fs[e]
    IN  IF sfx \in PS_EXTS THEN HasPsSynopsis(t)
        ELSE IF sfx \in BASH_EXTS THEN ExtractBashSynopsis(t) # <<>>
        ELSE IF sfx \in PY_EXTS THEN ExtractPySynopsis(t) # <<>>
        ELSE TRUE

\* has_synopsis
HasSynopsis(fs, parts) ==
    LET e == EntryOf(parts)
    IN  IF LowerSuffix(Entries[e].suffix) \in {".ps1", ".psm1"}
        THEN IF fs[e] = Unreadable THEN FALSE ELSE SynopsisReSearch(fs[e])
        ELSE TRUE

\* build_doc_lookup's best_doc_for: README.md beside the script (the file
\* system holds no other candidate and no README under a documentation root)
BestDocFor(fs, parts) ==
    LET cands == { e \in 1..Len(Entries) :
                     /\ Entries[e].parts =
                            SubSeq(parts, 1, Len(parts) - 1) \o <<"README.md">>
                     /\ IsFile(fs, e) }
    IN  IF cands = {} THEN <<>> ELSE Entries[CHOOSE e \in cands : TRUE].parts

\* build_doc_lookup: script -> doc, for the scripts that have one
BuildDocLookup(fs, rd) ==
    LET found_ == DiscoverScripts(fs, rd)
        withDoc == { i \in 1..Len(found_) : BestDocFor(fs, found_[i]) # <<>> }
    IN  [ rel \in { found_[i] : i \in withDoc } |-> BestDocFor(fs, rel) ]

\* list.sort(key=lambda t: t[0].lower()) on the entries of one section
RECURSIVE SortEntries(_)
SortEntries(S) ==
    IF S = {} THEN <<>>
    ELSE LET m == CHOOSE x \in S :
                      \A y \in S \ {x} : LexLess(x[1], y[1], LowerSegOrder)
         IN  <<m>> \o SortEntries(S \ {m})

\* build_catalog_data: category -> section -> sorted [(rel, syn)]
BuildCatalogData(fs, paths) ==
    LET items == { <<paths[i], HasSynopsis(fs, paths[i]),
                     SectionFor(RepoParts \o paths[i])>> : i \in 1..Len(paths) }
        cats == { it[3][1] : it \in items }
        secs(c) == { it[3][2] : it \in { x \in items : x[3][1] = c } }
    IN  [ c \in cats |->
            [ sc \in secs(c) |->
                SortEntries({ <<it[1], it[2]>> : it \in
                                { x \in items : x[3] = <<c, sc>> } }) ] ]

\* one line of the rendered block: "### cat", "#### sec", "- [base](rel)...",
\* or an empty line
Line(kind, name, rel, doc, syn) ==
    [kind |-> kind, name |-> name, rel |-> rel, doc |-> doc, syn |-> syn]
BlankLine == Line("blank", "", <<>>, <<>>, FALSE)

RECURSIVE RenderItems(_, _)
RenderItems(entries, docs) ==
    IF entries = <<>> THEN <<>>
    ELSE LET rel == entries[1][1]
             doc == IF rel \in DOMAIN docs THEN docs[rel] ELSE <<>>
         IN  <<Line("item", rel[Len(rel)], rel, doc, entries[1][2])>>
               \o RenderItems(Tail(entries), docs)

RECURSIVE RenderSections(_, _, _)
RenderSections(bySec, secs, docs) ==
    IF secs = <<>> THEN <<>>
    ELSE <<Line("sec", secs[1], <<>>, <<>>, FALSE), BlankLine>>
           \o RenderItems(bySec[secs[1]], docs)
           \o <<BlankLine>>
           \o RenderSections(bySec, Tail(secs), docs)

RECURSIVE RenderCategories(_, _, _)
RenderCategories(d, cats, docs) ==
    IF cats = <<>> THEN <<>>
    ELSE <<Line("cat", cats[1], <<>>, <<>>, FALSE), BlankLine>>
           \o RenderSections(d[cats[1]],
                             SortNames(DOMAIN d[cats[1]], SegOrder), docs)
           \o <<BlankLine>>
           \o RenderCategories(d, Tail(cats), docs)

\* render_catalog_block
RenderCatalogBlock(d, docs) ==
    RenderCategories(d, SortNames(DOMAIN d, LabelOrder), docs)

NotRun == <<"NOT RUN">>

\* the file systems: every entry absent or of one of its contents; an entry
\* below a root exists only if the root does
InitCatalog ==
    /\ files \in ContentsOf[1] \X ContentsOf[2] \X ContentsOf[3] \X ContentsOf[4]
                   \X ContentsOf[5] \X ContentsOf[6] \X ContentsOf[7] \X ContentsOf[8]
    /\ rootDirs \in SUBSET { Roots[r] : r \in 1..Len(Roots) }
    /\ \A e \in 1..Len(Entries) : \A r \in 1..Len(Roots) :
          (files[e] # NoFile /\ Below(e, Roots[r])) => Roots[r] \in rootDirs
    /\ scripts = NotRun
    /\ data = <<>>
    /\ catalog = <<>>
    /\ IdleLint /\ IdleMerge /\ IdleSection /\ IdleIssues

\* main(): discover_scripts, build_catalog_data, build_doc_lookup and, inside
\* render_readme, render_catalog_block
ScanAndRender ==
    /\ scripts = NotRun
    /\ scripts' = DiscoverScripts(files, rootDirs)
    /\ data' = BuildCatalogData(files, scripts')
    /\ catalog' = RenderCatalogBlock(data', BuildDocLookup(files, rootDirs))
    /\ UNCHANGED <<files, rootDirs, lintVars, mergeVars, sectionVars, issueVars>>

NextCatalog == ScanAndRender

SpecCatalog == InitCatalog /\ [][NextCatalog]_vars

----------------------------------------------------------------------------
(* Claims about the linter's parsers (checked under SpecLint)               *)

\* the line, left-stripped, begins with the tag (any case) and the tag ends
\* the line or is followed by a non-word character
IsTagLine(line) ==
    LET s == LStrip(line)
    IN  /\ OccursAtCI(s, SynTag, 1)
        /\ (Len(s) = Len(SynTag) \/ ~IsWord(s[Len(SynTag) + 1]))

\* the contents of the first <# ... #> block of t, as a set of at most one text
FirstBlocks(t) ==
    { SubSeq(t, o + 2, c - 1) : <<o, c>> \in
        { oc \in (1..Len(t)) \X (1..Len(t)) :
            /\ OccursAt(t, PsOpen, oc[1])
            /\ OccursAt(t, PsClose, oc[2])
            /\ oc[2] >= oc[1] + 2
            /\ \A i \in 1..(oc[1] - 1) : ~OccursAt(t, PsOpen, i)
            /\ \A i \in (oc[1] + 2)..(oc[2] - 1) : ~OccursAt(t, PsClose, i) } }

\* the claim's rule: a line that IS the tag, followed in the block by a
\* non-empty line
TagThenTextIn(block) ==
    LET ls == SplitLines(block)
    IN  \E i \in 1..Len(ls) :
            /\ Len(Strip(ls[i])) = Len(SynTag)
            /\ OccursAtCI(Strip(ls[i]), SynTag, 1)
            /\ \E j \in (i + 1)..Len(ls) : Strip(ls[j]) # <<>>

\* C4 as stated: a PowerShell synopsis is found exactly when the first
\* <# ... #> block holds a line equal to .SYNOPSIS (trimmed, any case) that is
\* followed inside the block by a non-empty line.
C4_TagThenTextRule ==
    (checked /\ ext \in PS_EXTS) =>
        (found <=> \E b \in FirstBlocks(text) : TagThenTextIn(b))

\* C4 as amended: has_ps_synopsis answers true exactly when the first
\* <# ... #> block (first occurrence, non-greedy) holds a line that begins,
\* after optional whitespace, with .SYNOPSIS in any case ending at a word
\* boundary; no text after the tag is required. Every other text (no block,
\* no such line in the first block, tag only in a later block) is answered
\* false.
C4_TagLineInFirstBlock ==
    (checked /\ ext \in PS_EXTS) =>
        (found <=> \E b \in FirstBlocks(text) :
                       \E i \in 1..Len(SplitLines(b)) :
                           IsTagLine(SplitLines(b)[i]))

\* C4 witness: a block whose tag line has no text after it was accepted
C4_Witness ==
    /\ checked /\ ext \in PS_EXTS /\ found
    /\ ~(\E b \in FirstBlocks(text) : TagThenTextIn(b))

\* the line is hash-prefixed once stripped
IsHashLine(line) == Strip(line) # <<>> /\ Strip(line)[1] = "#"

\* the line's content: hashes and surrounding whitespace stripped
HashContent(line) == Strip(LStripHash(Strip(line)))

\* the lines the leading-hash rule scans: all but a first line beginning #!
ScannedLines(t) ==
    LET ls == SplitLines(t)
    IN  IF ls # <<>> /\ Len(ls[1]) >= 2 /\ ls[1][1] = "#" /\ ls[1][2] = "!"
        THEN Tail(ls) ELSE ls

\* the synopses the leading-hash rule allows for t: the content of a
\* hash-prefixed line with content, all scanned lines before it being blank
\* or hash-prefixed without content
LeadingHashAnswers(t) ==
    LET ls == ScannedLines(t)
    IN  { HashContent(ls[k]) : k \in
            { n \in 1..Len(ls) :
                /\ IsHashLine(ls[n])
                /\ HashContent(ls[n]) # <<>>
                /\ \A j \in 1..(n - 1) :
                      \/ Strip(ls[j]) = <<>>
                      \/ (IsHashLine(ls[j]) /\ HashContent(ls[j]) = <<>>) } }

Shebang == <<"#", "!", "x">>
HelloLine == <<"#", " ", "x", " ", "x">>

\* C5: extract_bash_synopsis skips a first line beginning #!, returns the
\* content of the first hash-prefixed line that has content, and returns
\* empty once a non-blank line without hash prefix, or the end, comes first;
\* a shebang line followed by "# x x" yields "x x".
C5_LeadingHashRule ==
    (checked /\ ext \in BASH_EXTS) =>
        /\ (LeadingHashAnswers(text) = {} => synopsis = <<>>)
        /\ (LeadingHashAnswers(text) # {} => synopsis \in LeadingHashAnswers(text))
        /\ Cardinality(LeadingHashAnswers(text)) <= 1
        /\ (text = Shebang \o <<NL>> \o HelloLine => synopsis = <<"x", " ", "x">>)
        /\ found = (synopsis # <<>>)

\* C5 witness: a shebang line was skipped and the comment below it returned
C5_Witness ==
    /\ checked /\ ext \in BASH_EXTS
    /\ text = Shebang \o <<NL>> \o HelloLine
    /\ synopsis = <<"x", " ", "x">>

\* C6: where the docstring pattern does not match, extract_py_synopsis
\* returns what extract_bash_synopsis returns for the same text, and a first
\* line beginning #! is never the synopsis.
C6_PyFallsBackToBashRule ==
    (checked /\ ext \in PY_EXTS /\ DocstringMatch(text) = <<>>) =>
        /\ synopsis = ExtractBashSynopsis(text)
        /\ synopsis \in LeadingHashAnswers(text) \cup {<<>>}

----------------------------------------------------------------------------
(* Claims about the README merge (checked under SpecMerge)                  *)

\* t holds the start marker and, after it, the end marker
MarkersInOrder(t) ==
    /\ t # Absent
    /\ \E i \in 1..Len(t) : \E j \in (i + 1)..Len(t) :
          OccursAt(t, MARKER_START, i) /\ OccursAt(t, MARKER_END, j)

\* s begins with p / s ends with p
StartsWith(s, p) == OccursAt(s, p, 1)
EndsWith(s, p) == Len(p) <= Len(s) /\ OccursAt(s, p, Len(s) - Len(p) + 1)

\* C1: once a README holding the marker pair has been merged, a further run
\* with the same rendered catalog leaves the README as it is.
C1_MergeIdempotent ==
    [][(runs >= 1 /\ MarkersInOrder(prevReadme)) => readme' = readme]_vars

\* C2: merging into a README that holds the marker pair keeps the text before
\* the start marker and the text after the end marker byte-identical: the
\* result is before + start marker + (new text) + end marker + after.
C2_OnlyBetweenMarkersChanges ==
    (runs = 1 /\ MarkersInOrder(prevReadme)) =>
        LET i == Find(prevReadme, MARKER_START, 1)
            j == Find(prevReadme, MARKER_END, i + 1)
            before == SubSeq(prevReadme, 1, i - 1)
            after == Tail_(prevReadme, j + 1)
        IN  /\ StartsWith(readme, before \o MARKER_START)
            /\ EndsWith(readme, MARKER_END \o after)
            /\ Len(readme) >= Len(before) + Len(after) + 2

\* t holds both markers, but no end marker after its first start marker
MarkersOutOfOrder(t) ==
    /\ t # Absent
    /\ Contains(t, MARKER_START) /\ Contains(t, MARKER_END)
    /\ Find(t, MARKER_END, Find(t, MARKER_START, 1) + 1) = 0

\* C7: a README whose end marker does not follow its start marker is merged
\* by the legacy-heading rule or the append rule, and the text after the start
\* marker is still in the result.
C7_OutOfOrderMarkersFallBack ==
    (runs = 1 /\ MarkersOutOfOrder(prevReadme)) =>
        /\ readme = IF Contains(prevReadme, LEGACY_H1)
                    THEN LegacyReplace(prevReadme, catalogText)
                    ELSE AppendBlock(prevReadme, catalogText)
        /\ \E k \in 1..(Len(readme) + 1) :
              OccursAt(readme,
                       Tail_(prevReadme, Find(prevReadme, MARKER_START, 1) + 1),
                       k)

\* a heading of rank 1 or 2 starts at index i of t
TopHeadingAt(t, i) ==
    /\ LineStart(t, i)
    /\ \/ OccursAt(t, LEGACY_H1, i)
       \/ OccursAt(t, <<"#", " ">>, i)
       \/ OccursAt(t, <<"#", "#", " ">>, i)

\* the legacy heading at index i of t is a line of its own
HeadingLineAt(t, i) ==
    /\ LineStart(t, i)
    /\ (i + 1 > Len(t) \/ t[i + 1] = NL)

\* C8: without the marker pair, the section of the legacy heading (a line of
\* its own) is replaced up to the next heading of rank 1 or 2, or to the end
\* of the document; the text before the legacy heading and from that next
\* heading on is kept.
C8_LegacySectionEndsAtNextTopHeading ==
    (/\ runs = 1
     /\ prevReadme # Absent
     /\ ~(Contains(prevReadme, MARKER_START) /\ Contains(prevReadme, MARKER_END))
     /\ Contains(prevReadme, LEGACY_H1)
     /\ HeadingLineAt(prevReadme, Find(prevReadme, LEGACY_H1, 1))) =>
        LET start == Find(prevReadme, LEGACY_H1, 1)
            heads == {i \in (start + 1)..Len(prevReadme) : TopHeadingAt(prevReadme, i)}
            end == IF heads = {} THEN Len(prevReadme) + 1
                   ELSE CHOOSE i \in heads : \A j \in heads : i <= j
        IN  readme = SubSeq(prevReadme, 1, start - 1) \o Block(catalogText)
                        \o Tail_(prevReadme, end)

----------------------------------------------------------------------------
(* Claims about section_for (checked under SpecSection)                     *)

Anchors == <<"Scripts", "Standalone", "ConnectWise-PSA">>
AnchorLabel == <<"ConnectWise RMM (Asio)", "Standalone", "ConnectWise PSA">>

\* x is a segment of the path
InPath(x) == \E i \in 1..Len(path) : path[i] = x

\* the segment after the first occurrence of x, "General" when x comes last
AfterFirst(x) ==
    LET first == CHOOSE i \in 1..Len(path) :
                     path[i] = x /\ \A j \in 1..(i - 1) : path[j] # x
    IN  IF first = Len(path) THEN "General" ELSE path[first + 1]

\* C9 as stated: the first of the anchors Scripts, Standalone,
\* ConnectWise-PSA that occurs in the path decides: the category is its label
\* and the subsection is the segment after its first occurrence, or "General"
\* when it is the last segment; without an anchor both are the fallback label.
C9_FirstAnchorPresentDecides ==
    section # NoSection =>
        /\ \A a \in 1..3 :
              (InPath(Anchors[a]) /\ \A b \in 1..(a - 1) : ~InPath(Anchors[b]))
                  => section = <<AnchorLabel[a], AfterFirst(Anchors[a])>>
        /\ (\A a \in 1..3 : ~InPath(Anchors[a])) => section = <<"Misc", "Misc">>

\* anchor a takes part in the decision: it occurs in the path and, for
\* Scripts, occurs before the last segment
Applies(a) ==
    /\ InPath(Anchors[a])
    /\ (a = 1 => \E i \in 1..(Len(path) - 1) : path[i] = "Scripts")

\* C9 as amended: a Scripts anchor whose first occurrence is the last segment
\* does not decide and the lower-priority anchors are tried; otherwise the
\* first anchor in the order Scripts, Standalone, ConnectWise-PSA that occurs
\* decides, with the segment after its first occurrence as subsection, or
\* "General" when Standalone or ConnectWise-PSA is the last segment; when no
\* anchor decides, category and subsection are both "Misc".
C9_FirstApplicableAnchorDecides ==
    section # NoSection =>
        /\ \A a \in 1..3 :
              (Applies(a) /\ \A b \in 1..(a - 1) : ~Applies(b))
                  => section = <<AnchorLabel[a], AfterFirst(Anchors[a])>>
        /\ (\A a \in 1..3 : ~Applies(a)) => section = <<"Misc", "Misc">>

\* C9 witness: a path ending in Scripts was categorized by a lower-priority
\* anchor
C9_Witness ==
    /\ section = <<"Standalone", "Scripts">>
    /\ path[Len(path)] = "Scripts"

----------------------------------------------------------------------------
(* Claims about discovery and the rendered catalog (checked under            *)
(* SpecCatalog)                                                              *)

ScriptSet == { scripts[i] : i \in 1..Len(scripts) }

\* C10: discover_scripts returns a strictly ascending list (sorted, no path
\* twice) holding exactly the regular files below those of the three roots
\* that exist as directories whose lower-cased suffix is in the allowlist; a
\* missing root contributes nothing.
C10_DiscoverSortedExact ==
    scripts # NotRun =>
        /\ \A i \in 1..Len(scripts) : \A j \in (i + 1)..Len(scripts) :
              LexLess(scripts[i], scripts[j], SegOrder)
        /\ \A e \in 1..Len(Entries) :
              Entries[e].parts \in ScriptSet <=>
                  /\ files[e] \notin {NoFile, Dir}
                  /\ LowerSuffix(Entries[e].suffix) \in {".ps1", ".psm1", ".py", ".sh"}
                  /\ \E root \in rootDirs :
                        SubSeq(Entries[e].parts, 1, Len(root)) = root
        /\ \A q \in ScriptSet : \E e \in 1..Len(Entries) : Entries[e].parts = q

\* C10 witness: with one root missing, a directory named like a script and a
\* file with an upper-case suffix present, two or more scripts were found
C10_Witness ==
    /\ scripts # NotRun
    /\ Len(scripts) >= 2
    /\ <<"ConnectWise-PSA">> \notin rootDirs
    /\ files[6] = Dir
    /\ files[7] # NoFile
    /\ Entries[3].parts \in ScriptSet

\* the indices of the catalog lines listing the script
ItemLines(rel) ==
    { n \in 1..Len(catalog) : catalog[n].kind = "item" /\ catalog[n].rel = rel }

\* the name of the nearest line of the kind above line n ("" when none)
HeadingAbove(n, kind) ==
    LET above == { m \in 1..(n - 1) : catalog[m].kind = kind }
    IN  IF above = {} THEN ""
        ELSE catalog[CHOOSE m \in above : \A k \in above : k <= m].name

\* the category label and the subsection of a script found below a root
RootLabel(rel) ==
    IF rel[1] = "ConnectWise-RMM-Asio" THEN "ConnectWise RMM (Asio)"
    ELSE IF rel[1] = "Standalone" THEN "Standalone"
    ELSE "ConnectWise PSA"
RootSubsection(rel) ==
    IF rel[1] = "ConnectWise-RMM-Asio" THEN rel[3] ELSE rel[2]

\* the script is listed once, under its category and its subsection
ListedInPlace(rel) ==
    /\ Cardinality(ItemLines(rel)) = 1
    /\ \A n \in ItemLines(rel) :
          /\ catalog[n].name = rel[Len(rel)]
          /\ HeadingAbove(n, "cat") = RootLabel(rel)
          /\ HeadingAbove(n, "sec") = RootSubsection(rel)

FooPs1 == Entries[1].parts
BarSh == Entries[2].parts

\* C3 as stated: every discovered script is listed under its subsection and
\* its line carries the synopsis marker exactly when its header holds a
\* synopsis under the rule of its dialect; Foo.ps1 with a .SYNOPSIS block is
\* marked, bar.sh with a shebang line and code only is not.
C3_MarkerFollowsDialectRule ==
    scripts # NotRun =>
        /\ \A rel \in ScriptSet :
              /\ ListedInPlace(rel)
              /\ \A n \in ItemLines(rel) :
                    catalog[n].syn <=> HasSynopsis_dialect(files, rel)
        /\ (files[1] = PsWith /\ files[2] = ShBare) =>
              /\ \A n \in ItemLines(FooPs1) : catalog[n].syn
              /\ \A n \in ItemLines(BarSh) : ~catalog[n].syn

\* the catalog builder's PowerShell test, line by line: some line begins,
\* after optional whitespace, with <#, and from there on the text holds
\* .SYNOPSIS (any case) and, after it, #>
OpensBlockWithTag(t) ==
    LET ls == SplitLines(t)
    IN  \E i \in 1..Len(ls) :
            /\ OccursAt(LStrip(ls[i]), PsOpen, 1)
            /\ LET rest == Join(<<Tail_(LStrip(ls[i]), 3)>>
                                  \o SubSeq(ls, i + 1, Len(ls)))
               IN  \E k \in 1..Len(rest) :
                       /\ OccursAtCI(rest, SynTag, k)
                       /\ Find(rest, PsClose, k + Len(SynTag)) # 0

\* C3 as amended: every discovered script is listed once under its own
\* subsection; the line of a .ps1/.psm1 file carries the synopsis marker
\* exactly when the file is readable and some line of it begins (after
\* whitespace) with <# and is followed by .SYNOPSIS and then #>; the line of
\* every other script (.py, .sh) always carries the marker. So Foo.ps1 with a
\* .SYNOPSIS block is marked, and bar.sh with a shebang line and code only is
\* marked as well.
C3_MarkerFollowsCatalogRule ==
    scripts # NotRun =>
        /\ \A rel \in ScriptSet :
              /\ ListedInPlace(rel)
              /\ \A n \in ItemLines(rel) :
                    catalog[n].syn <=>
                        \/ LowerSuffix(Entries[EntryOf(rel)].suffix)
                              \notin {".ps1", ".psm1"}
                        \/ /\ files[EntryOf(rel)] # Unreadable
                           /\ OpensBlockWithTag(files[EntryOf(rel)])
        /\ (files[1] = PsWith /\ files[2] = ShBare) =>
              /\ \A n \in ItemLines(FooPs1) : catalog[n].syn
              /\ \A n \in ItemLines(BarSh) : catalog[n].syn

\* C3 witness: Foo.ps1 with a .SYNOPSIS block and bar.sh with a shebang line
\* and code only are both listed, under Windows and Linux
C3_Witness ==
    /\ scripts # NotRun
    /\ files[1] = PsWith /\ files[2] = ShBare
    /\ \E n \in ItemLines(FooPs1) : HeadingAbove(n, "sec") = "Windows"
    /\ \E n \in ItemLines(BarSh) :
          HeadingAbove(n, "sec") = "Linux" /\ catalog[n].syn

-----------------------------------------------------------------------------
\* The lint issue in the GitHub tracker (lint_scripts.py, issue helpers and
\* the tail of main). An issue's number is its index in issues. A request to
\* the API either succeeds or raises; the helpers swallow what is raised.

ISSUE_TITLE == "Lint: scripts missing synopsis headers"

\* issues?state=open&per_page=100: one page of open issues is read
PER_PAGE == 100

\* labels sent with every create and update
LABELS == {"ci", "lint"}

\* commits the linter runs at (GITHUB_SHA)
Shas == {"c1", "c2"}

\* the failure report; it links the offending files at the commit
Body(sha) == <<"## Synopsis linter failures", sha>>

\* the comment of a passing run
Comment(sha) == <<"Linter passed at", sha>>

NewIssue(title, body, labels) ==
    [title |-> title, state |-> "open", body |-> body, labels |-> labels,
     comments |-> <<>>]

\* the issues the listing returns: the open ones, newest first, one page
Listed(iss) ==
    LET open == {i \in DOMAIN iss : iss[i].state = "open"}
    IN  {i \in open : Cardinality({j \in open : j > i}) < PER_PAGE}

\* get_open_issue_by_title: the first listed issue with the title; 0 (None)
\* when there is none and also when listing raised
GetOpenIssueByTitle(iss, listOk) ==
    IF ~listOk THEN 0
    ELSE LET m == {i \in Listed(iss) : iss[i].title = ISSUE_TITLE}
         IN  IF m = {} THEN 0
             ELSE CHOOSE i \in m : \A j \in m : j <= i

\* ensure_issue: PATCH the issue found, else POST a new one; a request that
\* raises leaves the tracker alone and the result is None (0)
EnsureIssue(iss, listOk, writeOk, body) ==
    LET existing == GetOpenIssueByTitle(iss, listOk)
    IN  IF ~writeOk THEN [issues |-> iss, number |-> 0]
        ELSE IF existing # 0
        THEN [issues |-> [iss EXCEPT ![existing].body = body,
                                     ![existing].labels = LABELS],
              number |-> existing]
        ELSE [issues |-> Append(iss, NewIssue(ISSUE_TITLE, body, LABELS)),
              number |-> Len(iss) + 1]

\* close_issue_if_open: comment on the issue found, then close it; the
\* comment stays when closing raises
CloseIssueIfOpen(iss, listOk, commentOk, closeOk, comment) ==
    LET num == GetOpenIssueByTitle(iss, listOk)
        commented == [iss EXCEPT ![num].comments = Append(@, comment)]
    IN  IF num = 0 \/ ~commentOk THEN [issues |-> iss, number |-> 0]
        ELSE IF ~closeOk THEN [issues |-> commented, number |-> 0]
        ELSE [issues |-> [commented EXCEPT ![num].state = "closed"],
              number |-> num]

InitIssues ==
    /\ IdleIssues
    /\ IdleLint /\ IdleMerge /\ IdleSection /\ IdleCatalog

\* main with scripts missing a synopsis: the issue is ensured when running
\* inside Actions with repository and token
RunFails ==
    /\ lastRun.n < MaxLintRuns
    /\ \E in_actions, repo, token, listOk, writeOk \in BOOLEAN, sha \in Shas :
          LET creds == in_actions /\ repo /\ token
              res == IF creds
                     THEN EnsureIssue(issues, listOk, writeOk, Body(sha))
                     ELSE [issues |-> issues, number |-> 0]
          IN  /\ issues' = res.issues
              /\ issuesBefore' = issues
              /\ lastRun' = [kind |-> "fail", creds |-> creds,
                             apiOk |-> listOk /\ writeOk, body |-> Body(sha),
                             number |-> res.number, n |-> lastRun.n + 1]
    /\ UNCHANGED <<lintVars, mergeVars, sectionVars, catalogVars>>

\* main with every script passing: the issue is closed when running inside
\* Actions with repository and token
RunPasses ==
    /\ lastRun.n < MaxLintRuns
    /\ \E in_actions, repo, token, listOk, commentOk, closeOk \in BOOLEAN,
          sha \in Shas :
          LET creds == in_actions /\ repo /\ token
              res == IF creds
                     THEN CloseIssueIfOpen(issues, listOk, commentOk, closeOk,
                                           Comment(sha))
                     ELSE [issues |-> issues, number |-> 0]
          IN  /\ issues' = res.issues
              /\ issuesBefore' = issues
              /\ lastRun' = [kind |-> "pass", creds |-> creds,
                             apiOk |-> listOk /\ commentOk /\ closeOk,
                             body |-> Comment(sha),
                             number |-> res.number, n |-> lastRun.n + 1]
    /\ UNCHANGED <<lintVars, mergeVars, sectionVars, catalogVars>>

\* somebody opens an issue with another title; the listing returns it too
OtherIssueOpened ==
    /\ Cardinality({i \in DOMAIN issues : issues[i].title # ISSUE_TITLE})
          < MaxOtherIssues
    /\ issues' = Append(issues, NewIssue("Other", <<"other">>, {}))
    /\ UNCHANGED <<issuesBefore, lastRun>>
    /\ UNCHANGED <<lintVars, mergeVars, sectionVars, catalogVars>>

NextIssues == RunFails \/ RunPasses \/ OtherIssueOpened

SpecIssues == InitIssues /\ [][NextIssues]_vars

-----------------------------------------------------------------------------
\* Claims about the lint issue

\* the open issues of a tracker that carry the lint title
OpenLintIssues(iss) ==
    {i \in DOMAIN iss : iss[i].state = "open" /\ iss[i].title = ISSUE_TITLE}

\* C11: after any sequence of linter runs inside GitHub Actions with
\* repository and token set, the tracker holds at most one open issue titled
\* "Lint: scripts missing synopsis headers": a failing run creates an issue
\* only when no open issue with the title existed before it and, its requests
\* answered, otherwise leaves the existing one carrying its report; a passing
\* run whose requests are answered leaves no open issue with the title.
C11_SingleOpenLintIssue ==
    /\ Cardinality(OpenLintIssues(issues)) <= 1
    /\ (lastRun.kind = "fail" /\ lastRun.creds) =>
          /\ lastRun.number > Len(issuesBefore) =>
                OpenLintIssues(issuesBefore) = {}
          /\ (lastRun.apiOk /\ OpenLintIssues(issuesBefore) # {}) =>
                /\ lastRun.number \in OpenLintIssues(issuesBefore)
                /\ issues[lastRun.number].body = lastRun.body
                /\ OpenLintIssues(issues) = OpenLintIssues(issuesBefore)
    /\ (lastRun.kind = "pass" /\ lastRun.creds /\ lastRun.apiOk) =>
          OpenLintIssues(issues) = {}

=============================================================================
